---- MODULE Spec2Model ----
(***************************************************************************)
(* CKSEARCH: a model of the username fan-out (modules/username_search.py), *)
(* the scanner entry points and their validation (modules/*.py), the       *)
(* concurrency limiter (core/scanner.py), the API client with its rate    *)
(* limiter and retry loop (core/api_client.py), the licence gate of the    *)
(* client (main.py, core/license.py) and the licence server               *)
(* (backend/app/routers).                                                  *)
(*                                                                         *)
(* Each concern has its own specification over its own group of variables; *)
(* the groups a specification does not use stay at their initial value.    *)
(***************************************************************************)
EXTENDS Integers, Sequences, FiniteSets, TLC

VARIABLES
    \* ---- scan orchestration (modules/*.py: scan) ----
    kind,            \* which scanner runs: "username" | "email" | "phone" | "domain"
    target,          \* the identifier handed to scan(), a sequence of characters
    scan_mode,       \* options["scan_mode"]
    include_adult,   \* options["include_adult"]
    pc,              \* "init" | "scanning" | "returned" | "raised" | "interrupted"
    sites_to_check,  \* UsernameSearch.scan: the selected site list
    task_state,      \* per position of sites_to_check: "inflight" | "done"
    resp,            \* per position: what the transport answered ("none" while in flight)
    done_queue,      \* asyncio.as_completed: finished futures not yet awaited by the loop
    found_results,   \* _scan_sites: found_results
    found_count,     \* _scan_sites: found_count
    advanced,        \* _scan_sites: progress.update(advance=1) calls so far
    outcomes,        \* per position: how many results the loop has received for it
    results,         \* the dictionary scan() returns (NoReport until it returns)
    net_calls,       \* network requests issued by the scan so far
    parse_result,    \* phone scans: the answer of the phonenumbers library
    \* ---- concurrency limiting (core/scanner.py, _scan_sites) ----
    cap_kind,        \* "batch" (AsyncScanner.run_batch) | "fanout" (_scan_sites) | "idle"
    max_concurrent,  \* AsyncScanner.max_concurrent
    semaphore,       \* permits left in AsyncScanner.semaphore
    c_waiting,       \* tasks that have not yet got a permit / a connection
    c_inflight,      \* tasks whose transport call is in flight
    c_done,          \* tasks that have finished
    c_cancel,        \* run_batch: the gather has been cancelled
    c_exits,         \* run_batch: the ways wrapped() calls have ended so far
    c_pc,            \* run_batch: "running" | "returned" | "cancelled" | "idle"
    \* ---- the rate limiter of one APIClient (core/api_client.py) ----
    p_mode,          \* "sync" (get / post through wait) | "async" (async_get_many) | "idle"
    now,             \* time.time(), in ticks
    last_request,    \* RateLimiter.last_request
    lock,            \* RateLimiter._lock: the request holding it, 0 when free
    rq,              \* per request: [pc, wake, start, finish]
    \* ---- one call of APIClient.get / post / async_get ----
    r_method,        \* "get" | "post" | "async_get" | "idle"
    r_script,        \* what the transport yields, attempt after attempt
    r_pc,            \* "call" | "loop" | "done"
    r_attempts,      \* requests sent so far
    r_waits,         \* passes through the rate limiter so far
    r_slept,         \* seconds spent in time.sleep between attempts
    r_result,        \* "pending" | "ok" (the decoded body) | "None"
    \* ---- the adapters of an email / domain scan (modules/email_osint.py,
    \*      modules/domain_intel.py) ----
    a_kind,          \* "email" | "domain" | "idle"
    a_env,           \* what each external service does during this scan
    a_pc,            \* the step scan() is at; "returned" | "raised" at the end
    a_report,        \* the results dictionary scan() is filling in
    \* ---- the licence gate: one device, its client process and the server
    \*      (main.py, core/license.py, backend/app/routers/license.py) ----
    g_path,          \* "cli" | "interactive" | "idle": how the program is run
    g_tier,          \* server: User.tier, "free" | "premium"
    daily_requests,  \* server: User.daily_requests
    extra_requests,  \* server: User.extra_requests
    new_day,         \* server: a day boundary has passed since daily_reset_at
    license_info,    \* client: CKSearch.license_info, None or [tier, remaining_requests]
    g_pc,            \* client: "boot" | "ready" | "exited"
    g_last,          \* what the last scan request of this process did
    g_scans,         \* non-username scans that returned a report since the last reset
    g_how,           \* client: how _init_license ended, "online" | "offline" | "skipped" | "none"
    g_session,       \* non-username scans that returned a report in this process
    \* ---- concurrent MaigretWrapper.check_username calls (core/maigret_wrapper.py) ----
    w_user,          \* per call: the username argument
    w_mode,          \* per call: the scan_mode argument
    w_pc,            \* per call: "start" | "running" | "writing" | "exited" | "done"
    report_file,     \* per username: the content of /tmp/report_<username>.json
    w_results,       \* per call: what check_username returned
    \* ---- one response classified by _check_site (modules/username_search.py) ----
    k_site,          \* the site entry
    k_user,          \* the username
    k_resp,          \* the response after redirects: [status, final]
    k_result,        \* Pending, then what _check_site returned
    \* ---- the licence server and its database
    \*      (backend/app/routers/license.py, admin.py, backend/app/models.py) ----
    s_kind,          \* "licence" | "referral" | "idle": which endpoints are exercised
    workers,         \* server processes sharing the database
    db_now,          \* datetime.utcnow(), in days
    u_tier,          \* per user: User.tier
    u_license_key,   \* per user: User.license_key
    u_expires_at,    \* per user: User.expires_at
    u_referred_by,   \* per user: User.referred_by
    u_extra_requests,\* per user: User.extra_requests
    l_is_used,       \* per licence key: License.is_used
    l_used_by,       \* per licence key: License.used_by
    h_req,           \* per server process: the request it is handling, or Idle
    v_resp,          \* the last answer of /validate, /activate or /referral
    upgraded_by,     \* per licence key: the users an activation with it upgraded
    redeemed,        \* per user: /referral requests of the user answered success
    credited         \* per user: extra requests the successful answers announced

scanVars == <<kind, target, scan_mode, include_adult, pc, sites_to_check,
              task_state, resp, done_queue, found_results, found_count,
              advanced, outcomes, results, net_calls, parse_result>>

batchVars == <<c_cancel, c_exits, c_pc>>

capVars == <<cap_kind, max_concurrent, semaphore, c_waiting, c_inflight, c_done,
             batchVars>>

pacerVars == <<p_mode, now, last_request, lock, rq>>

retryVars == <<r_method, r_script, r_pc, r_attempts, r_waits, r_slept, r_result>>

adapterVars == <<a_kind, a_env, a_pc, a_report>>

\* The groups added after the first four.
gateVars == <<g_path, g_tier, daily_requests, extra_requests, new_day,
              license_info, g_pc, g_last, g_scans, g_how, g_session>>

wrapVars == <<w_user, w_mode, w_pc, report_file, w_results>>

classVars == <<k_site, k_user, k_resp, k_result>>

serverVars == <<s_kind, workers, db_now, u_tier, u_license_key, u_expires_at,
                u_referred_by, u_extra_requests, l_is_used, l_used_by, h_req,
                v_resp, upgraded_by, redeemed, credited>>

laterVars == <<adapterVars, gateVars, wrapVars, classVars, serverVars>>

vars == <<scanVars, capVars, pacerVars, retryVars, laterVars>>

\* The groups at rest.
ScanIdle ==
    /\ kind = "idle" /\ target = <<>> /\ scan_mode = "quick"
    /\ include_adult = TRUE /\ pc = "idle" /\ sites_to_check = <<>>
    /\ task_state = <<>> /\ resp = <<>> /\ done_queue = <<>>
    /\ found_results = <<>> /\ found_count = 0 /\ advanced = 0
    /\ outcomes = <<>> /\ results = [tag |-> "no report"] /\ net_calls = 0
    /\ parse_result = "n/a"

CapIdle ==
    /\ cap_kind = "idle" /\ max_concurrent = 0 /\ semaphore = 0
    /\ c_waiting = 0 /\ c_inflight = 0 /\ c_done = 0
    /\ c_cancel = FALSE /\ c_exits = {} /\ c_pc = "idle"

PacerIdle ==
    /\ p_mode = "idle" /\ now = 0 /\ last_request = 0 /\ lock = 0
    /\ rq = <<>>

RetryIdle ==
    /\ r_method = "idle" /\ r_script = <<>> /\ r_pc = "idle"
    /\ r_attempts = 0 /\ r_waits = 0 /\ r_slept = 0 /\ r_result = "pending"

AdapterIdle ==
    /\ a_kind = "idle" /\ a_env = <<>> /\ a_pc = "idle" /\ a_report = <<>>

GateIdle ==
    /\ g_path = "idle" /\ g_tier = "free" /\ daily_requests = 0
    /\ extra_requests = 0 /\ new_day = FALSE
    /\ license_info = [tag |-> "None"] /\ g_pc = "idle"
    /\ g_last = <<>> /\ g_scans = 0 /\ g_how = "none" /\ g_session = 0

WrapIdle ==
    /\ w_user = <<>> /\ w_mode = <<>> /\ w_pc = <<>>
    /\ report_file = <<>> /\ w_results = <<>>

ClassIdle ==
    /\ k_site = <<>> /\ k_user = <<>> /\ k_resp = <<>> /\ k_result = [tag |-> "idle"]

ServerIdle ==
    /\ s_kind = "idle" /\ workers = 0 /\ db_now = 0
    /\ u_tier = <<>> /\ u_license_key = <<>> /\ u_expires_at = <<>>
    /\ u_referred_by = <<>> /\ u_extra_requests = <<>>
    /\ l_is_used = <<>> /\ l_used_by = <<>> /\ h_req = <<>>
    /\ v_resp = <<>> /\ upgraded_by = <<>> /\ redeemed = <<>>
    /\ credited = <<>>

LaterIdle ==
    /\ AdapterIdle
    /\ GateIdle
    /\ WrapIdle
    /\ ClassIdle
    /\ ServerIdle

----------------------------------------------------------------------------
(* Helpers *)

Min(a, b) == IF a < b THEN a ELSE b

\* Python's s[:n]: the first n elements, clamped to the length.
Slice(s, n) == SubSeq(s, 1, Min(n, Len(s)))

Range(s) == {s[i] : i \in DOMAIN s}

----------------------------------------------------------------------------
(* The platform database, abridged: every list keeps its category, its     *)
(* check_type and the shape of its URLs; GAMING keeps its repeated entry.  *)
(* A url template is its text plus whether it ends in a slash.             *)

Site(name, base, slash, category) ==
    [name |-> name, url |-> [base |-> base, slash |-> slash],
     check_type |-> "status", category |-> category]

SOCIAL_GLOBAL ==
    << Site("Pinterest", "https://www.pinterest.com/{}", TRUE, "Social") >>

GAMING ==
    << Site("Steam", "https://steamcommunity.com/id/{}", FALSE, "Gaming"),
       Site("Roblox", "https://www.roblox.com/user.aspx?username={}", FALSE, "Gaming"),
       Site("Roblox", "https://www.roblox.com/user.aspx?username={}", FALSE, "Gaming") >>

ADULT_SITES ==
    << Site("OnlyFans", "https://onlyfans.com/{}", FALSE, "Adult") >>

\* QUICK_SITES takes a prefix of some lists (the second Roblox entry lies
\* beyond the prefix of GAMING, as in the source).
QUICK_SITES == Slice(SOCIAL_GLOBAL, 1) \o Slice(GAMING, 2)

DEEP_SITES == SOCIAL_GLOBAL \o GAMING \o ADULT_SITES

----------------------------------------------------------------------------
(* Values *)

NoneVal  == [tag |-> "None"]        \* Python's None
Raise    == [tag |-> "raise"]       \* an exception leaving a coroutine
NoReport == [tag |-> "no report"]   \* scan() has not returned

\* What the transport can answer to one GET: a status, or an exception
\* (aiohttp raises on a timeout and on a refused connection).
Responses == {"200", "404", "timeout", "refused"}
TransportErrors == {"timeout", "refused"}

Usernames == { <<>>, <<"a">>, <<"A", "a">> }

\* site["url"].format(username)
FormatUrl(site, username) ==
    [base |-> site.url.base, slash |-> site.url.slash, user |-> username]

\* _check_site without its try/except: a transport exception leaves the
\* coroutine.
CheckSite_Unguarded(site, username, r) ==
    IF r = "200"
    THEN [site |-> site.name, url |-> FormatUrl(site, username),
          category |-> site.category]
    ELSE IF r \in {"timeout", "refused"} THEN [tag |-> "raise"]
    ELSE [tag |-> "None"]

\* UsernameSearch._check_site: the value the coroutine returns for a
\* transport answer r. Every exception is swallowed by the bare except.
CheckSite(site, username, r) ==
    IF r = "200"
    THEN [site |-> site.name, url |-> FormatUrl(site, username),
          category |-> site.category]
    ELSE NoneVal

\* A selection that never filters.
SelectSites_NoFilter(mode, adult) ==
    IF mode = "deep" THEN DEEP_SITES ELSE QUICK_SITES

\* UsernameSearch.scan: the site selection.
NotAdult(s) == s.category # "Adult"

SelectSites(mode, adult) ==
    IF mode = "deep"
    THEN IF ~adult THEN SelectSeq(DEEP_SITES, NotAdult) ELSE DEEP_SITES
    ELSE QUICK_SITES

\* A grouping that starts the list of a category anew at every item.
RECURSIVE Categorize_Overwrite(_, _)
Categorize_Overwrite(found, cats) ==
    IF found = <<>> THEN cats
    ELSE LET item == Head(found)
             cat  == item.category
             new  == [c \in DOMAIN cats \cup {cat} |->
                        IF c = cat THEN <<item>> ELSE cats[c]]
         IN Categorize_Overwrite(Tail(found), new)

\* UsernameSearch.scan: "Categorize results".
RECURSIVE Categorize(_, _)
Categorize(found, cats) ==
    IF found = <<>> THEN cats
    ELSE LET item == Head(found)
             cat  == item.category
             new  == IF cat \in DOMAIN cats
                     THEN [cats EXCEPT ![cat] = Append(@, item)]
                     ELSE [c \in DOMAIN cats \cup {cat} |->
                             IF c = cat THEN <<item>> ELSE cats[c]]
         IN Categorize(Tail(found), new)

EmptyCats == [c \in {} |-> <<>>]

----------------------------------------------------------------------------
(* Identifiers and their validation.  An identifier is a sequence of       *)
(* characters; each scanner's inputs are all the sequences over a small    *)
(* alphabet that reaches every character class of its pattern.             *)

MaxIdLen == 6

Letters == {"a", "A"}
Digits  == {"1"}

SeqsUpTo(S, n) == UNION {[1..m -> S] : m \in 0..n}

AllIn(s, lo, hi, C) == \A k \in lo..hi : s[k] \in C

\* EmailOSINT._validate_email:
\*   ^[a-zA-Z0-9._%+-]+@[a-zA-Z0-9.-]+\.[a-zA-Z]{2,}$
EmailLocalChars  == Letters \cup Digits \cup {".", "_", "%", "+", "-"}
EmailDomainChars == Letters \cup Digits \cup {".", "-"}

ValidateEmail(e) ==
    \E i \in 2..Len(e) :
       /\ e[i] = "@"
       /\ AllIn(e, 1, i - 1, EmailLocalChars)
       /\ \E j \in (i + 2)..(Len(e) - 2) :
             /\ e[j] = "."
             /\ AllIn(e, i + 1, j - 1, EmailDomainChars)
             /\ AllIn(e, j + 1, Len(e), Letters)

\* DomainIntel._clean_domain: lower(), strip(), drop a leading scheme, keep
\* what precedes the first "/", drop a leading "www.".  Over DomainAlphabet
\* only the cut at the first "/" changes the text.
RECURSIVE BeforeSlash(_)
BeforeSlash(d) ==
    IF d = <<>> \/ Head(d) = "/" THEN <<>>
    ELSE <<Head(d)>> \o BeforeSlash(Tail(d))

CleanDomain(d) == BeforeSlash(d)

\* DomainIntel._validate_domain:
\*   ^[a-zA-Z0-9]([a-zA-Z0-9\-]{0,61}[a-zA-Z0-9])?(\.[a-zA-Z]{2,})+$
AlNum == Letters \cup Digits

\* s matches (\.[a-zA-Z]{2,})+
RECURSIVE TldGroups(_)
TldGroups(s) ==
    /\ Len(s) >= 3
    /\ s[1] = "."
    /\ \E m \in 3..Len(s) :
          /\ AllIn(s, 2, m, Letters)
          /\ \/ m = Len(s)
             \/ TldGroups(SubSeq(s, m + 1, Len(s)))

ValidateDomain(d) ==
    \E k \in 1..Min(Len(d), 63) :
       /\ d[1] \in AlNum
       /\ d[k] \in AlNum
       /\ AllIn(d, 2, k - 1, AlNum \cup {"-"})
       /\ TldGroups(SubSeq(d, k + 1, Len(d)))

EmailAlphabet  == {"a", "1", "@", "."}
DomainAlphabet == {"a", "1", "-", ".", "/"}
PhoneAlphabet  == {"+", "1"}

\* PhoneLookup._parse_phone hands the text to the phonenumbers library; what
\* the library answers is an input of the scan.
ParseResults == {"valid", "invalid", "raises"}

----------------------------------------------------------------------------
(* The username scan *)

InitScan ==
    /\ scan_mode \in {"quick", "deep"}
    /\ \/ /\ kind = "username"
          /\ target \in Usernames
          /\ include_adult \in BOOLEAN
          /\ parse_result = "n/a"
       \/ /\ kind = "email"
          /\ target \in SeqsUpTo(EmailAlphabet, MaxIdLen)
          /\ include_adult = TRUE
          /\ parse_result = "n/a"
       \/ /\ kind = "domain"
          /\ target \in SeqsUpTo(DomainAlphabet, MaxIdLen)
          /\ include_adult = TRUE
          /\ parse_result = "n/a"
       \/ /\ kind = "phone"
          /\ target \in SeqsUpTo(PhoneAlphabet, 2)
          /\ include_adult = TRUE
          /\ parse_result \in ParseResults
    /\ pc = "init"
    /\ sites_to_check = <<>>
    /\ task_state = <<>>
    /\ resp = <<>>
    /\ done_queue = <<>>
    /\ found_results = <<>>
    /\ found_count = 0
    /\ advanced = 0
    /\ outcomes = <<>>
    /\ results = NoReport
    /\ net_calls = 0
    /\ CapIdle
    /\ PacerIdle
    /\ RetryIdle
    /\ LaterIdle

\* UsernameSearch.scan up to the first suspension inside _scan_sites: the
\* empty-username check, the site selection, and the creation of one
\* _check_site task per site; as_completed schedules them all at once.
UsernameScanStart ==
    /\ pc = "init"
    /\ kind = "username"
    /\ IF target = <<>>
       THEN /\ results' = [error |-> "Username empty"]
            /\ pc' = "returned"
            /\ UNCHANGED <<sites_to_check, task_state, resp, outcomes, net_calls>>
       ELSE LET sites == SelectSites(scan_mode, include_adult)
            IN /\ sites_to_check' = sites
               /\ task_state' = [i \in DOMAIN sites |-> "inflight"]
               /\ resp' = [i \in DOMAIN sites |-> "none"]
               /\ outcomes' = [i \in DOMAIN sites |-> 0]
               /\ net_calls' = Len(sites)
               /\ pc' = "scanning"
               /\ UNCHANGED results
    /\ UNCHANGED <<kind, target, scan_mode, include_adult, done_queue,
                   found_results, found_count, advanced, parse_result>>
    /\ UNCHANGED <<capVars, pacerVars, retryVars, laterVars>>

\* One request finishes: the transport answers r and the future of task i
\* becomes ready for as_completed.
SiteCompletes(i, r) ==
    /\ pc = "scanning"
    /\ task_state[i] = "inflight"
    /\ task_state' = [task_state EXCEPT ![i] = "done"]
    /\ resp' = [resp EXCEPT ![i] = r]
    /\ done_queue' = Append(done_queue, i)
    /\ UNCHANGED <<kind, target, scan_mode, include_adult, pc, sites_to_check,
                   found_results, found_count, advanced, outcomes, results,
                   net_calls, parse_result>>
    /\ UNCHANGED <<capVars, pacerVars, retryVars, laterVars>>

\* One iteration of "for future in asyncio.as_completed(tasks)": await the
\* next finished future; an exception in it leaves the loop and scan();
\* after the last iteration scan() builds the report and returns.
LoopNext ==
    /\ pc = "scanning"
    /\ done_queue # <<>>
    /\ LET i      == Head(done_queue)
           result == CheckSite(sites_to_check[i], target, resp[i])
       IN /\ done_queue' = Tail(done_queue)
          /\ IF result = Raise
             THEN /\ pc' = "raised"
                  /\ UNCHANGED <<found_results, found_count, advanced,
                                 outcomes, results>>
             ELSE LET found == IF result # NoneVal
                               THEN Append(found_results, result)
                               ELSE found_results
                  IN /\ found_results' = found
                     /\ found_count' = IF result # NoneVal
                                       THEN found_count + 1 ELSE found_count
                     /\ advanced' = advanced + 1
                     /\ outcomes' = [outcomes EXCEPT ![i] = @ + 1]
                     /\ IF advanced + 1 = Len(sites_to_check)
                        THEN /\ results' =
                                  [target |-> target,
                                   scan_mode |-> scan_mode,
                                   total_sites |-> Len(sites_to_check),
                                   found |-> found,
                                   count |-> Len(found),
                                   categories |-> Categorize(found, EmptyCats)]
                             /\ pc' = "returned"
                        ELSE UNCHANGED <<results, pc>>
    /\ UNCHANGED <<kind, target, scan_mode, include_adult, sites_to_check,
                   task_state, resp, net_calls, parse_result>>
    /\ UNCHANGED <<capVars, pacerVars, retryVars, laterVars>>

\* What the three synchronous scanners leave alone.
fanoutVars == <<sites_to_check, task_state, resp, done_queue, found_results,
                found_count, advanced, outcomes>>

\* EmailOSINT.scan: the pattern check, then the MX lookup, the breach API
\* and the Gravatar request.
EmailScan ==
    /\ pc = "init"
    /\ kind = "email"
    /\ IF ~ValidateEmail(target)
       THEN /\ results' = [error |-> "Invalid email format"]
            /\ UNCHANGED net_calls
       ELSE /\ results' = [email |-> target, scan_mode |-> scan_mode,
                           valid |-> TRUE]
            /\ net_calls' = net_calls + 3
    /\ pc' = "returned"
    /\ UNCHANGED <<kind, target, scan_mode, include_adult, parse_result>>
    /\ UNCHANGED fanoutVars
    /\ UNCHANGED <<capVars, pacerVars, retryVars, laterVars>>

\* PhoneLookup.scan: _parse_phone, then the Numverify request.
PhoneScan ==
    /\ pc = "init"
    /\ kind = "phone"
    /\ IF parse_result # "valid"
       THEN /\ results' = [valid |-> FALSE,
                           error |-> "Invalid phone number format"]
            /\ UNCHANGED net_calls
       ELSE /\ results' = [input |-> target, scan_mode |-> scan_mode,
                           valid |-> TRUE]
            /\ net_calls' = net_calls + 1
    /\ pc' = "returned"
    /\ UNCHANGED <<kind, target, scan_mode, include_adult, parse_result>>
    /\ UNCHANGED fanoutVars
    /\ UNCHANGED <<capVars, pacerVars, retryVars, laterVars>>

\* DomainIntel.scan: _clean_domain, the pattern check, then WHOIS, DNS, the
\* certificate, the technology, header and web requests and the subdomain
\* enumeration.
DomainScan ==
    /\ pc = "init"
    /\ kind = "domain"
    /\ LET domain == CleanDomain(target)
       IN IF ~ValidateDomain(domain)
          THEN /\ results' = [error |-> "Invalid domain format"]
               /\ UNCHANGED net_calls
          ELSE /\ results' = [domain |-> domain, scan_mode |-> scan_mode]
               /\ net_calls' = net_calls + 7
    /\ pc' = "returned"
    /\ UNCHANGED <<kind, target, scan_mode, include_adult, parse_result>>
    /\ UNCHANGED fanoutVars
    /\ UNCHANGED <<capVars, pacerVars, retryVars, laterVars>>

NextScan ==
    \/ UsernameScanStart
    \/ \E i \in DOMAIN task_state, r \in Responses : SiteCompletes(i, r)
    \/ LoopNext
    \/ EmailScan
    \/ PhoneScan
    \/ DomainScan

Spec == InitScan /\ [][NextScan]_vars

----------------------------------------------------------------------------
(* Properties of the scan *)

\* scan() has returned the report of a username scan (not a validation error).
UsernameReportReturned ==
    /\ kind = "username"
    /\ pc = "returned"
    /\ "found" \in DOMAIN results

\* The outcome counters the report carries.  The scan tallies the hits
\* (found_count, reported as "count"); it keeps no tally of the probes that
\* returned None, so "count" is the only outcome counter there is.
OutcomeCounterSum(r) == r.count

\* C1 (Completeness): when the report of a username scan is returned, the
\* number of probes attempted equals the number of selected sites and equals
\* the sum of the report's outcome counters.
C1_Completeness ==
    UsernameReportReturned =>
        /\ results.total_sites = Len(sites_to_check)
        /\ advanced = Len(sites_to_check)
        /\ results.total_sites = OutcomeCounterSum(results)

\* The hits of positions lo..Len(sites_to_check), in the declared order of
\* the site list.
RECURSIVE RegistryOrderHits(_)
RegistryOrderHits(lo) ==
    IF lo > Len(sites_to_check) THEN <<>>
    ELSE LET h == CheckSite(sites_to_check[lo], target, resp[lo])
         IN (IF h # NoneVal /\ h # Raise THEN <<h>> ELSE <<>>)
            \o RegistryOrderHits(lo + 1)

\* C2 (Report ordering): the hits of the report are in the declared order of
\* their sites, whatever order the requests completed in.
C2_ReportOrdering ==
    UsernameReportReturned => results.found = RegistryOrderHits(1)

\* What the report says about the site at position i: it is listed as a hit,
\* or it is not, which the report's reader takes as "not present"; the
\* report has no other place for a probe.
ReportedState(i) ==
    IF \E k \in DOMAIN results.found :
          results.found[k] = [site |-> sites_to_check[i].name,
                              url |-> FormatUrl(sites_to_check[i], target),
                              category |-> sites_to_check[i].category]
    THEN "present"
    ELSE "absent"

\* C3 (Transport errors are never absent): a probe whose request failed at
\* the transport level is reported in state error, not as absent.
C3_TransportErrorNotAbsent ==
    UsernameReportReturned =>
        \A i \in DOMAIN sites_to_check :
            resp[i] \in TransportErrors => ReportedState(i) = "error"

\* C6 (Exactly one outcome per probe): the loop never receives two outcomes
\* for a site, every awaited probe has yielded one, no exception leaves the
\* fan-out, and at the return every selected site has exactly one.
C6_ExactlyOneOutcome ==
    kind = "username" =>
        /\ pc # "raised"
        /\ \A i \in DOMAIN outcomes : outcomes[i] <= 1
        /\ \A i \in DOMAIN outcomes :
              (task_state[i] = "done" /\ i \notin Range(done_queue))
                  => outcomes[i] = 1
        /\ UsernameReportReturned =>
              /\ DOMAIN outcomes = DOMAIN sites_to_check
              /\ \A i \in DOMAIN sites_to_check : outcomes[i] = 1

\* A scan returned after one request answered 200, one 404, one timed out
\* and one was refused.
C6_Witness ==
    /\ UsernameReportReturned
    /\ \A r \in Responses : \E i \in DOMAIN resp : resp[i] = r
    /\ \A i \in DOMAIN sites_to_check : outcomes[i] = 1

\* Case folding and removal of a trailing slash.
LowerChar(c) == IF c = "A" THEN "a" ELSE c

NormUrl(u) ==
    [base |-> u.base, slash |-> FALSE,
     user |-> [k \in DOMAIN u.user |-> LowerChar(u.user[k])]]

\* C7 (Dedup): the report never holds two hits whose URLs are the same after
\* case folding and removal of a trailing slash.
C7_Dedup ==
    UsernameReportReturned =>
        \A i, j \in DOMAIN results.found :
            i # j => NormUrl(results.found[i].url) # NormUrl(results.found[j].url)

\* The identifier is one the scan must refuse.
InvalidIdentifier ==
    \/ kind = "email" /\ ~ValidateEmail(target)
    \/ kind = "phone" /\ parse_result # "valid"
    \/ kind = "domain" /\ ~ValidateDomain(CleanDomain(target))
    \/ kind = "username" /\ Len(target) < 2

\* C8 (Validation aborts before any probe): for an invalid identifier no
\* network request is ever made and the scan returns a validation error.
C8_ValidationAborts ==
    InvalidIdentifier =>
        /\ net_calls = 0
        /\ pc \in {"init", "returned"}
        /\ pc = "returned" => "error" \in DOMAIN results

\* The hits of category c, in the order of the hit list.
HitsOf(found, c) == SelectSeq(found, LAMBDA item : item.category = c)

\* C25 (by_category is a partition of the hits): in the report of a
\* username scan the categories are those of the hits, the list of each
\* category holds exactly the hits of that category in the order of the hit
\* list (so each hit is in the list of its own category and in no other),
\* and the reported count is the number of hits.
C25_CategoryPartition ==
    (kind = "username" /\ pc = "returned" /\ "found" \in DOMAIN results) =>
        LET found == results.found
            cats  == results.categories
        IN /\ DOMAIN cats = {found[i].category : i \in DOMAIN found}
           /\ \A c \in DOMAIN cats : cats[c] = HitsOf(found, c)
           /\ results.count = Len(found)

\* A report with hits in two categories, two of them in the same one.
C25_Witness ==
    /\ kind = "username"
    /\ pc = "returned"
    /\ "found" \in DOMAIN results
    /\ Cardinality(DOMAIN results.categories) >= 2
    /\ \E c \in DOMAIN results.categories : Len(results.categories[c]) >= 2
    /\ results.count = Len(results.found)

\* The registry of a mode, in declared order.
ModeSites(mode) == IF mode = "deep" THEN DEEP_SITES ELSE QUICK_SITES

\* C26 (Probe selection): in quick and in deep mode alike, the sites a
\* username scan checks are, with adult sites excluded, exactly the sites of
\* the mode that are not in the Adult category, in declared order, and with
\* adult sites included all the sites of the mode in declared order.
C26_ProbeSelection ==
    (kind = "username" /\ pc = "scanning") =>
        sites_to_check = IF include_adult
                         THEN ModeSites(scan_mode)
                         ELSE SelectSeq(ModeSites(scan_mode),
                                        LAMBDA s : s.category # "Adult")

\* A deep scan with adult sites excluded is checking fewer sites than the
\* deep registry holds, none of them adult.
C26_Witness ==
    /\ kind = "username"
    /\ pc = "scanning"
    /\ scan_mode = "deep"
    /\ ~include_adult
    /\ Len(sites_to_check) < Len(DEEP_SITES)
    /\ \A i \in DOMAIN sites_to_check : sites_to_check[i].category # "Adult"

----------------------------------------------------------------------------
(* Concurrency limiting.  The tasks of a batch are interchangeable, so the *)
(* model counts them: waiting, in flight, done.                            *)

MAX_CONCURRENT_REQUESTS == 50   \* config.MAX_CONCURRENT_REQUESTS
ConnectorLimit == 100           \* _scan_sites: aiohttp.TCPConnector(limit=100)
QuickSiteCount == 75            \* len(QUICK_SITES)
DeepSiteCount == 271            \* len(DEEP_SITES)
NumBatchTasks == 60             \* tasks handed to run_batch

\* AsyncScanner.__init__: max_concurrent or config.MAX_CONCURRENT_REQUESTS
\* (0 stands for the argument left at None).
MaxConcurrentArg(arg) == IF arg = 0 THEN MAX_CONCURRENT_REQUESTS ELSE arg

InitCap ==
    /\ \/ /\ cap_kind = "batch"
          /\ \E arg \in {0, 3} : max_concurrent = MaxConcurrentArg(arg)
          /\ semaphore = max_concurrent      \* _init_semaphore
          /\ c_waiting = NumBatchTasks
       \/ /\ cap_kind = "fanout"
          /\ max_concurrent = MAX_CONCURRENT_REQUESTS
          /\ semaphore = 0                   \* _scan_sites has no semaphore
          /\ c_waiting \in {QuickSiteCount, DeepSiteCount}
    /\ c_inflight = 0
    /\ c_done = 0
    /\ c_cancel = FALSE
    /\ c_exits = {}
    /\ c_pc = "running"
    /\ ScanIdle
    /\ PacerIdle
    /\ RetryIdle
    /\ LaterIdle

\* run_batch.wrapped: "async with self.semaphore" takes a permit, then the
\* task is awaited.
BatchAcquire ==
    /\ cap_kind = "batch"
    /\ ~c_cancel
    /\ c_waiting > 0
    /\ semaphore > 0
    /\ semaphore' = semaphore - 1
    /\ c_waiting' = c_waiting - 1
    /\ c_inflight' = c_inflight + 1
    /\ UNCHANGED <<cap_kind, max_concurrent, c_done, batchVars>>
    /\ UNCHANGED <<scanVars, pacerVars, retryVars, laterVars>>

\* The ways the task awaited inside "async with self.semaphore" can end.
TaskExits == {"returned", "raised", "cancelled"}

\* An "async with" that gives the permit back only when its body returns.
BatchRelease_NoExitOnRaise(how) ==
    /\ cap_kind = "batch"
    /\ c_inflight > 0
    /\ how = "cancelled" => c_cancel
    /\ semaphore' = IF how = "returned" THEN semaphore + 1 ELSE semaphore
    /\ c_inflight' = c_inflight - 1
    /\ c_done' = c_done + 1
    /\ c_exits' = c_exits \cup {how}
    /\ UNCHANGED <<cap_kind, max_concurrent, c_waiting, c_cancel, c_pc>>
    /\ UNCHANGED <<scanVars, pacerVars, retryVars, laterVars>>

\* run_batch.wrapped: the awaited task returns, raises, or (the gather being
\* cancelled) is cancelled; leaving the "async with" block, by whichever
\* way, gives the permit back.
BatchRelease(how) ==
    /\ cap_kind = "batch"
    /\ c_inflight > 0
    /\ how = "cancelled" => c_cancel
    /\ semaphore' = semaphore + 1
    /\ c_inflight' = c_inflight - 1
    /\ c_done' = c_done + 1
    /\ c_exits' = c_exits \cup {how}
    /\ UNCHANGED <<cap_kind, max_concurrent, c_waiting, c_cancel, c_pc>>
    /\ UNCHANGED <<scanVars, pacerVars, retryVars, laterVars>>

\* The task awaiting run_batch is cancelled while the gather is pending
\* (asyncio.run cancels the main task on Ctrl-C); the gather cancels every
\* wrapped() call that has not finished.
BatchCancel ==
    /\ cap_kind = "batch"
    /\ c_pc = "running"
    /\ ~c_cancel
    /\ c_cancel' = TRUE
    /\ UNCHANGED <<cap_kind, max_concurrent, semaphore, c_waiting, c_inflight,
                   c_done, c_exits, c_pc>>
    /\ UNCHANGED <<scanVars, pacerVars, retryVars, laterVars>>

\* run_batch.wrapped: a call cancelled before it got a permit (never
\* started, or waiting in the semaphore's acquire) ends without one.
BatchCancelWaiting ==
    /\ cap_kind = "batch"
    /\ c_cancel
    /\ c_waiting > 0
    /\ c_waiting' = c_waiting - 1
    /\ c_done' = c_done + 1
    /\ c_exits' = c_exits \cup {"cancelled waiting"}
    /\ UNCHANGED <<cap_kind, max_concurrent, semaphore, c_inflight, c_cancel,
                   c_pc>>
    /\ UNCHANGED <<scanVars, pacerVars, retryVars, laterVars>>

\* run_batch: the gather is over once every wrapped() call has ended; it
\* hands back the list of results, or raises CancelledError if cancelled.
BatchReturns ==
    /\ cap_kind = "batch"
    /\ c_pc = "running"
    /\ c_waiting = 0
    /\ c_inflight = 0
    /\ c_pc' = IF c_cancel THEN "cancelled" ELSE "returned"
    /\ UNCHANGED <<cap_kind, max_concurrent, semaphore, c_waiting, c_inflight,
                   c_done, c_cancel, c_exits>>
    /\ UNCHANGED <<scanVars, pacerVars, retryVars, laterVars>>

\* _scan_sites: every _check_site task is scheduled at once by as_completed;
\* its session.get proceeds as soon as the connector has a free connection.
FanoutConnect ==
    /\ cap_kind = "fanout"
    /\ c_waiting > 0
    /\ c_inflight < ConnectorLimit
    /\ c_waiting' = c_waiting - 1
    /\ c_inflight' = c_inflight + 1
    /\ UNCHANGED <<cap_kind, max_concurrent, semaphore, c_done, batchVars>>
    /\ UNCHANGED <<scanVars, pacerVars, retryVars, laterVars>>

\* _check_site: the request ends (answer or exception).
FanoutComplete ==
    /\ cap_kind = "fanout"
    /\ c_inflight > 0
    /\ c_inflight' = c_inflight - 1
    /\ c_done' = c_done + 1
    /\ UNCHANGED <<cap_kind, max_concurrent, semaphore, c_waiting, batchVars>>
    /\ UNCHANGED <<scanVars, pacerVars, retryVars, laterVars>>

NextCap ==
    \/ BatchAcquire
    \/ \E how \in TaskExits : BatchRelease(how)
    \/ BatchCancel
    \/ BatchCancelWaiting
    \/ BatchReturns
    \/ FanoutConnect
    \/ FanoutComplete

SpecCap == InitCap /\ [][NextCap]_vars

\* C4 (Concurrency cap): the number of transport calls in flight never
\* exceeds the configured cap, in run_batch and in the username fan-out.
C4_ConcurrencyCap == c_inflight <= max_concurrent

\* run_batch is over: it has returned its list, or raised CancelledError.
BatchOver == cap_kind = "batch" /\ c_pc \in {"returned", "cancelled"}

\* C23 (Semaphore release on every exit path): in run_batch the permits
\* missing from the semaphore are exactly those of the tasks in flight,
\* whichever way the tasks before them ended (returned, raised, cancelled);
\* the permits available never exceed max_concurrent and are max_concurrent
\* again once run_batch is over.
C23_SemaphoreRelease ==
    cap_kind = "batch" =>
        /\ semaphore + c_inflight = max_concurrent
        /\ semaphore <= max_concurrent
        /\ BatchOver => semaphore = max_concurrent

\* run_batch is over after tasks ended in each of the three ways while
\* holding a permit, and every permit is back.
C23_Witness ==
    /\ BatchOver
    /\ TaskExits \subseteq c_exits
    /\ c_done = NumBatchTasks
    /\ semaphore = max_concurrent

----------------------------------------------------------------------------
(* The rate limiter.  Time is counted in ticks; a request is in flight     *)
(* from the moment its caller leaves wait / async_wait until the transport *)
(* answers.                                                                *)

RATE == 5              \* APIClient.__init__: rate_limit = 5.0 requests per second
TicksPerSecond == 10   \* resolution of the clock
MaxTime == 8           \* the clock stops here
NumRequests == 2       \* requests issued through the one client

\* 1.0 / self.rate
MinInterval == TicksPerSecond \div RATE

NewRequest == [pc |-> "start", wake |-> 0, start |-> 0, finish |-> 0]

\* time.time() is far past last_request = 0.0 at the first request.
InitPacer ==
    /\ p_mode \in {"sync", "async"}
    /\ now = MinInterval
    /\ last_request = 0
    /\ lock = 0
    /\ rq = [c \in 1..NumRequests |-> NewRequest]
    /\ ScanIdle
    /\ CapIdle
    /\ RetryIdle
    /\ LaterIdle

\* (1.0 / self.rate) - (now - self.last_request)
WaitTime == MinInterval - (now - last_request)

\* The caller leaves the limiter: last_request = time.time(), and the
\* request goes out.
Leave(c) ==
    /\ last_request' = now
    /\ rq' = [rq EXCEPT ![c] = [@ EXCEPT !.pc = "inflight", !.start = now]]

\* RateLimiter.wait, called by get / post on the one calling thread: the
\* next call starts when the previous request has returned.
SyncWait(c) ==
    /\ p_mode = "sync"
    /\ rq[c].pc = "start"
    /\ \A d \in 1..(c - 1) : rq[d].pc = "done"
    /\ IF WaitTime > 0
       THEN /\ rq' = [rq EXCEPT ![c] = [@ EXCEPT !.pc = "sleeping",
                                                 !.wake = now + WaitTime]]
            /\ UNCHANGED last_request
       ELSE Leave(c)
    /\ UNCHANGED <<p_mode, now, lock>>
    /\ UNCHANGED <<scanVars, capVars, retryVars, laterVars>>

\* RateLimiter.wait: time.sleep(wait_time) is over.
SyncWake(c) ==
    /\ p_mode = "sync"
    /\ rq[c].pc = "sleeping"
    /\ now >= rq[c].wake
    /\ Leave(c)
    /\ UNCHANGED <<p_mode, now, lock>>
    /\ UNCHANGED <<scanVars, capVars, retryVars, laterVars>>

\* RateLimiter.async_wait, called by async_get (one coroutine per endpoint
\* of async_get_many): take the lock, and either sleep holding it or leave.
AsyncWait(c) ==
    /\ p_mode = "async"
    /\ rq[c].pc = "start"
    /\ lock = 0
    /\ IF WaitTime > 0
       THEN /\ rq' = [rq EXCEPT ![c] = [@ EXCEPT !.pc = "sleeping",
                                                 !.wake = now + WaitTime]]
            /\ lock' = c
            /\ UNCHANGED last_request
       ELSE /\ Leave(c)
            /\ UNCHANGED lock
    /\ UNCHANGED <<p_mode, now>>
    /\ UNCHANGED <<scanVars, capVars, retryVars, laterVars>>

\* RateLimiter.async_wait: asyncio.sleep(wait_time) is over; the lock is
\* released on the way out.
AsyncWake(c) ==
    /\ p_mode = "async"
    /\ rq[c].pc = "sleeping"
    /\ lock = c
    /\ now >= rq[c].wake
    /\ Leave(c)
    /\ lock' = 0
    /\ UNCHANGED <<p_mode, now>>
    /\ UNCHANGED <<scanVars, capVars, retryVars, laterVars>>

\* The transport answers (or fails): the request is complete.
RequestCompletes(c) ==
    /\ rq[c].pc = "inflight"
    /\ rq' = [rq EXCEPT ![c] = [@ EXCEPT !.pc = "done", !.finish = now]]
    /\ UNCHANGED <<p_mode, now, last_request, lock>>
    /\ UNCHANGED <<scanVars, capVars, retryVars, laterVars>>

\* Time passes.
Tick ==
    /\ p_mode # "idle"
    /\ now < MaxTime
    /\ now' = now + 1
    /\ UNCHANGED <<p_mode, last_request, lock, rq>>
    /\ UNCHANGED <<scanVars, capVars, retryVars, laterVars>>

NextPacer ==
    \/ \E c \in DOMAIN rq : SyncWait(c)
    \/ \E c \in DOMAIN rq : SyncWake(c)
    \/ \E c \in DOMAIN rq : AsyncWait(c)
    \/ \E c \in DOMAIN rq : AsyncWake(c)
    \/ \E c \in DOMAIN rq : RequestCompletes(c)
    \/ Tick

SpecPacer == InitPacer /\ [][NextPacer]_vars

Started(c) == rq[c].pc \in {"inflight", "done"}

\* C5 (Host serialisation): of any two requests sent through the limiter,
\* the later one starts no earlier than the completion of the earlier one
\* plus the minimum interval; so the earlier one is complete when the later
\* one is in flight.
C5_HostSerialisation ==
    \A c, d \in DOMAIN rq :
        (c # d /\ Started(c) /\ Started(d) /\ rq[c].start <= rq[d].start)
            => /\ rq[c].pc = "done"
               /\ rq[d].start >= rq[c].finish + MinInterval

----------------------------------------------------------------------------
(* One call of the API client against a scripted transport.                *)

MAX_RETRIES == 3       \* config.MAX_RETRIES
RETRY_DELAY == 1       \* config.RETRY_DELAY, seconds
ScriptLen == 3         \* length of the transport scripts

\* A status code, a timeout, or another transport exception.
TransportYields == {"200", "404", "429", "500", "timeout", "connerr"}

Scripts == [1..ScriptLen -> TransportYields]

InitRetry ==
    /\ r_method \in {"get", "post", "async_get"}
    /\ r_script \in Scripts
    /\ r_pc = "call"
    /\ r_attempts = 0
    /\ r_waits = 0
    /\ r_slept = 0
    /\ r_result = "pending"
    /\ ScanIdle
    /\ CapIdle
    /\ PacerIdle
    /\ LaterIdle

\* What the transport yields to the next request.
NextYield == r_script[r_attempts + 1]

Return(value) ==
    /\ r_result' = value
    /\ r_pc' = "done"

\* The loop running over range(self.max_retries - 1).
Continue_OneShort(secs) ==
    /\ r_slept' = r_slept + secs
    /\ IF r_attempts + 1 < MAX_RETRIES - 1
       THEN UNCHANGED <<r_result, r_pc>>
       ELSE r_result' = "None" /\ r_pc' = "done"

\* "continue" after a sleep of secs seconds: the next iteration of
\* "for attempt in range(self.max_retries)", or, the range being used up,
\* the "return None" after the loop.
Continue(secs) ==
    /\ r_slept' = r_slept + secs
    /\ IF r_attempts + 1 < MAX_RETRIES
       THEN UNCHANGED <<r_result, r_pc>>
       ELSE Return("None")

\* get / post / async_get up to the first request: the rate limiter.
CallEnter ==
    /\ r_pc = "call"
    /\ r_waits' = r_waits + 1
    /\ r_pc' = "loop"
    /\ UNCHANGED <<r_method, r_script, r_attempts, r_slept, r_result>>
    /\ UNCHANGED <<scanVars, capVars, pacerVars, laterVars>>

\* APIClient.get: one iteration of the retry loop.  attempt (from 0) is
\* r_attempts before the request.
GetAttempt ==
    /\ r_method = "get"
    /\ r_pc = "loop"
    /\ r_attempts < MAX_RETRIES
    /\ r_attempts' = r_attempts + 1
    /\ LET y == NextYield
           attempt == r_attempts
       IN CASE y = "200" -> Return("ok") /\ UNCHANGED r_slept
            [] y = "429" -> Continue(RETRY_DELAY * 2)
            [] y = "500" -> Continue(RETRY_DELAY * (attempt + 1))
            [] y = "404" -> Return("None") /\ UNCHANGED r_slept
            [] y = "timeout" ->
                 IF attempt < MAX_RETRIES - 1
                 THEN /\ r_slept' = r_slept + RETRY_DELAY
                      /\ UNCHANGED <<r_result, r_pc>>
                 ELSE Return("None") /\ UNCHANGED r_slept
            [] y = "connerr" -> Return("None") /\ UNCHANGED r_slept
    /\ UNCHANGED <<r_method, r_script, r_waits>>
    /\ UNCHANGED <<scanVars, capVars, pacerVars, laterVars>>

\* APIClient.post: one iteration of its loop; only 429 continues, a timeout
\* is a RequestException.
PostAttempt ==
    /\ r_method = "post"
    /\ r_pc = "loop"
    /\ r_attempts < MAX_RETRIES
    /\ r_attempts' = r_attempts + 1
    /\ LET y == NextYield
       IN CASE y = "200" -> Return("ok") /\ UNCHANGED r_slept
            [] y = "429" -> Continue(RETRY_DELAY * 2)
            [] OTHER -> Return("None") /\ UNCHANGED r_slept
    /\ UNCHANGED <<r_method, r_script, r_waits>>
    /\ UNCHANGED <<scanVars, capVars, pacerVars, laterVars>>

\* APIClient.async_get: a single request, no loop.
AsyncGetAttempt ==
    /\ r_method = "async_get"
    /\ r_pc = "loop"
    /\ r_attempts' = r_attempts + 1
    /\ IF NextYield = "200" THEN Return("ok") ELSE Return("None")
    /\ UNCHANGED <<r_method, r_script, r_waits, r_slept>>
    /\ UNCHANGED <<scanVars, capVars, pacerVars, laterVars>>

NextRetry ==
    \/ CallEnter
    \/ GetAttempt
    \/ PostAttempt
    \/ AsyncGetAttempt

SpecRetry == InitRetry /\ [][NextRetry]_vars

\* The transport yields 500, then 500, then 200 to a get that has returned.
Yields500_500_200 ==
    /\ r_method = "get"
    /\ r_pc = "done"
    /\ SubSeq(r_script, 1, 3) = <<"500", "500", "200">>

\* C9 (Retry idempotence): a get whose transport yields 500, 500, 200
\* returns the body of the 200 answer after exactly 3 requests.
C9_RetryIdempotence ==
    Yields500_500_200 => (r_result = "ok" /\ r_attempts = 3)

C9_Witness ==
    Yields500_500_200 /\ r_result = "ok" /\ r_attempts = 3

Transient == {"500", "timeout"}

\* C10 (Retry bound): on every request path a call never sends more than 3
\* requests, a call that gives up returns the error value, and a call gives
\* up on a transient failure (5xx, timeout) only after its 2 retries.
C10_RetryBound ==
    /\ r_attempts <= 3
    /\ (r_pc = "done" /\ r_result # "ok") => r_result = "None"
    /\ (r_pc = "done" /\ r_script[r_attempts] \in Transient)
          => r_attempts = 3

\* C21 (Every retry passes through the host pacer): every request a call
\* has sent, the first one and each retry, was preceded by its own pass
\* through the rate limiter, so a call never has sent more requests than it
\* has waited on the limiter.
C21_RetryThroughPacer == r_attempts <= r_waits

\* The 4xx answers of the transport.
ClientErrors == {"404", "429"}

\* C22 (Permanent errors are emitted immediately): a request answered with
\* a 4xx ends the call at once with the error value, without a backoff
\* sleep and so without a further attempt.
C22_PermanentImmediate ==
    [][(r_attempts' = r_attempts + 1 /\ r_script[r_attempts'] \in ClientErrors)
          => (r_pc' = "done" /\ r_result' = "None" /\ r_slept' = r_slept)]_vars

----------------------------------------------------------------------------
(* The adapters of the email and domain scanners.  The identifier has      *)
(* passed validation; what each external service does during the scan is   *)
(* fixed at the start (a_env) and scan() calls the adapters one after the  *)
(* other, writing each one's result into its section of the report.        *)

\* Python's {} and d.get(k, default).
EmptyDict == [k \in {} |-> ""]

DictGet(d, k, default) == IF k \in DOMAIN d THEN d[k] ELSE default

\* What the breach API does: a 200 with breaches, a 200 without, an error
\* status, a 429 whose Retry-After is a date rather than a number, a timeout,
\* a connection error.
BreachYields ==
    {"200 breaches", "200 clean", "404", "429", "429 date", "500",
     "timeout", "connerr"}

\* The breach request did not succeed.
BreachRequestFailed == {"404", "429", "500", "timeout", "connerr"}

\* APIClient.get against a service that keeps yielding y: the decoded body
\* on a 200, None once a 4xx answers or the retries of a 429 / 5xx / timeout
\* are used up, None on a connection error; int() of a Retry-After that is
\* not a number raises ValueError out of get.
ApiGet(y) ==
    CASE y = "200 breaches" -> [breaches |-> <<"breach">>]
      [] y = "200 clean"    -> [status |-> "clean"]
      [] y = "429 date"     -> Raise
      [] OTHER              -> NoneVal

\* What _check_xposedornot returns when no breach is listed.
NoBreachFound == [found |-> FALSE, count |-> 0, details |-> <<>>]

\* EmailOSINT._check_xposedornot.
CheckXposedornot(y) ==
    LET result == ApiGet(y)
    IN CASE result = Raise -> [found |-> FALSE, count |-> 0, error |-> "ValueError"]
         [] result = NoneVal -> NoBreachFound
         [] "breaches" \in DOMAIN result /\ Len(result.breaches) > 0 ->
                [found |-> TRUE, count |-> Len(result.breaches),
                 details |-> result.breaches]
         [] OTHER -> NoBreachFound

\* EmailOSINT._analyze_domain: the MX lookup sits in a try / except: pass.
AnalyzeDomain(o) ==
    [provider_type |-> "custom",
     mx_records |-> IF o = "ok" THEN <<"mx">> ELSE <<>>]

\* EmailOSINT._check_gravatar.
CheckGravatar(o) ==
    IF o = "200" THEN [found |-> TRUE, avatar_url |-> "avatar"]
    ELSE [found |-> FALSE, avatar_url |-> "identicon"]

\* EmailOSINT._check_disposable.
CheckDisposable(is_disp) ==
    [is_disposable |-> is_disp, risk_level |-> IF is_disp THEN "high" ELSE "low"]

\* EmailOSINT._calculate_risk.
CalculateRisk(r) ==
    LET breach == IF r.breaches.found THEN Min(r.breaches.count * 10, 50) ELSE 0
        disp   == IF DictGet(r.disposable_check, "is_disposable", FALSE)
                  THEN 30 ELSE 0
        score  == breach + disp
    IN [score |-> score,
        level |-> IF score >= 70 THEN "CRITICAL"
                  ELSE IF score >= 50 THEN "HIGH"
                  ELSE IF score >= 30 THEN "MEDIUM" ELSE "LOW"]

\* DomainIntel._get_whois.
GetWhois(o) ==
    IF o = "ok" THEN [registrar |-> "registrar"] ELSE [error |-> "whois"]

\* DomainIntel._get_dns_records: the resolver is built outside any try, each
\* resolve() call sits in a try / except: pass.
GetDnsRecords(o) ==
    CASE o = "no_resolver" -> Raise
      [] o = "ok"          -> [A |-> <<"ip">>, NS |-> <<"ns">>, MX |-> <<"mx">>]
      [] OTHER             -> EmptyDict

\* DomainIntel._get_ssl_info.
GetSslInfo(o) ==
    IF o = "ok" THEN [valid |-> TRUE, issuer |-> "issuer"]
    ELSE [valid |-> FALSE, error |-> "ssl"]

\* DomainIntel._detect_technologies and _get_web_info, two requests to the
\* same page, each in a try / except: pass.
DetectTechnologies(o) ==
    [server |-> IF o = "ok" THEN "server" ELSE "None"]

GetWebInfo(o) ==
    [title |-> IF o = "ok" THEN "title" ELSE "None", https |-> (o = "ok")]

\* DomainIntel._check_security_headers, for a page that sends all of the
\* headers but the last two; a failed request leaves both lists empty.
HeadersCheck == <<"Strict-Transport-Security", "Content-Security-Policy",
                  "X-Frame-Options", "X-Content-Type-Options",
                  "X-XSS-Protection">>

CheckSecurityHeaders(o) ==
    IF o = "ok"
    THEN [present |-> SubSeq(HeadersCheck, 1, 3),
          missing |-> SubSeq(HeadersCheck, 4, 5), grade |-> "B"]
    ELSE [present |-> <<>>, missing |-> <<>>, grade |-> "F"]

\* DomainIntel._enumerate_subdomains: the crt.sh request and every resolve()
\* call sit in a try / except: pass.  (Its resolver is built as in
\* _get_dns_records, which has raised before this step when there is none.)
EnumerateSubdomains(o) ==
    IF o = "ok" THEN <<"www">> ELSE <<>>

\* DomainIntel.scan, step 8, and _check_virustotal.
CheckVirustotal(o) ==
    CASE o = "nokey"     -> [error |-> "No API key provided"]
      [] o = "clean"     -> [malicious |-> 0]
      [] o = "malicious" -> [malicious |-> 1]
      [] OTHER           -> [error |-> "API Error"]

\* DomainIntel._assess_security.
AssessSecurity(r) ==
    LET ssl_pen == IF DictGet(r.ssl_certificate, "valid", FALSE) THEN 0 ELSE 30
        hdr_pen == Len(DictGet(r.security_headers, "missing", <<>>)) * 5
        vt_pen  == IF DictGet(r.reputation.virustotal, "malicious", 0) > 0
                   THEN 50 ELSE 0
        score   == 100 - ssl_pen - hdr_pen - vt_pen
    IN [score |-> IF score < 0 THEN 0 ELSE score,
        grade |-> IF score >= 85 THEN "A"
                  ELSE IF score >= 70 THEN "B"
                  ELSE IF score >= 55 THEN "C"
                  ELSE IF score >= 40 THEN "D" ELSE "F"]

EmailEnvs ==
    [mx : {"ok", "fail"}, breach : BreachYields,
     gravatar : {"200", "404", "fail"}, disposable : BOOLEAN]

DomainEnvs ==
    [whois : {"ok", "fail"}, dns : {"ok", "nxdomain", "no_resolver"},
     ssl : {"ok", "fail"}, web : {"ok", "fail"}, headers : {"ok", "fail"},
     subs : {"ok", "fail"}, vt : {"nokey", "clean", "malicious", "fail"}]

InitAdapters ==
    /\ \/ a_kind = "email" /\ a_env \in EmailEnvs
       \/ a_kind = "domain" /\ a_env \in DomainEnvs
    /\ a_pc = "start"
    /\ a_report = EmptyDict
    /\ ScanIdle
    /\ CapIdle
    /\ PacerIdle
    /\ RetryIdle
    /\ GateIdle
    /\ WrapIdle
    /\ ClassIdle
    /\ ServerIdle

notAdapterVars == <<scanVars, capVars, pacerVars, retryVars, gateVars,
                    wrapVars, classVars, serverVars>>

\* The results dictionary as scan() first builds it.
EmailResults ==
    [valid |-> TRUE, domain_info |-> EmptyDict, breaches |-> NoBreachFound,
     gravatar |-> EmptyDict, disposable_check |-> EmptyDict,
     risk_assessment |-> EmptyDict]

DomainResults ==
    [whois |-> EmptyDict, dns_records |-> EmptyDict,
     ssl_certificate |-> EmptyDict, ip_addresses |-> <<>>,
     nameservers |-> <<>>, mx_records |-> <<>>, technology_stack |-> EmptyDict,
     security_headers |-> EmptyDict, web_info |-> EmptyDict,
     subdomains |-> <<>>, reputation |-> EmptyDict]

AdapterScanStart ==
    /\ a_pc = "start"
    /\ a_report' = IF a_kind = "email" THEN EmailResults ELSE DomainResults
    /\ a_pc' = IF a_kind = "email" THEN "domain_info" ELSE "whois"
    /\ UNCHANGED <<a_kind, a_env>>
    /\ UNCHANGED notAdapterVars

\* One adapter call of scan(): section := value, then on to the next step.
AdapterStep(at, section, value, next) ==
    /\ a_pc = at
    /\ a_report' = [a_report EXCEPT ![section] = value]
    /\ a_pc' = next
    /\ UNCHANGED <<a_kind, a_env>>
    /\ UNCHANGED notAdapterVars

EmailDomainInfo ==
    AdapterStep("domain_info", "domain_info", AnalyzeDomain(a_env.mx), "breaches")

EmailBreaches ==
    AdapterStep("breaches", "breaches", CheckXposedornot(a_env.breach),
                "gravatar")

EmailGravatar ==
    AdapterStep("gravatar", "gravatar", CheckGravatar(a_env.gravatar),
                "disposable")

EmailDisposable ==
    AdapterStep("disposable", "disposable_check",
                CheckDisposable(a_env.disposable), "risk")

EmailRisk ==
    AdapterStep("risk", "risk_assessment", CalculateRisk(a_report), "returned")

DomainWhois ==
    AdapterStep("whois", "whois", GetWhois(a_env.whois), "dns")

\* Step 2 of DomainIntel.scan: an exception of _get_dns_records leaves scan().
DomainDns ==
    /\ a_pc = "dns"
    /\ LET dns_data == GetDnsRecords(a_env.dns)
       IN IF dns_data = Raise
          THEN /\ a_pc' = "raised"
               /\ UNCHANGED a_report
          ELSE /\ a_report' = [a_report EXCEPT
                                  !.dns_records = dns_data,
                                  !.ip_addresses = DictGet(dns_data, "A", <<>>),
                                  !.nameservers = DictGet(dns_data, "NS", <<>>),
                                  !.mx_records = DictGet(dns_data, "MX", <<>>)]
               /\ a_pc' = "ssl"
    /\ UNCHANGED <<a_kind, a_env>>
    /\ UNCHANGED notAdapterVars

DomainSsl ==
    AdapterStep("ssl", "ssl_certificate", GetSslInfo(a_env.ssl), "tech")

DomainTech ==
    AdapterStep("tech", "technology_stack", DetectTechnologies(a_env.web),
                "headers")

DomainHeaders ==
    AdapterStep("headers", "security_headers",
                CheckSecurityHeaders(a_env.headers), "web")

DomainWeb ==
    AdapterStep("web", "web_info", GetWebInfo(a_env.web), "subdomains")

DomainSubdomains ==
    AdapterStep("subdomains", "subdomains", EnumerateSubdomains(a_env.subs),
                "reputation")

DomainReputation ==
    AdapterStep("reputation", "reputation",
                [virustotal |-> CheckVirustotal(a_env.vt)], "assess")

\* Step 9: the security score, then scan() returns.
DomainAssess ==
    /\ a_pc = "assess"
    /\ a_report' = [k \in DOMAIN a_report \cup {"security_assessment"} |->
                       IF k = "security_assessment"
                       THEN AssessSecurity(a_report) ELSE a_report[k]]
    /\ a_pc' = "returned"
    /\ UNCHANGED <<a_kind, a_env>>
    /\ UNCHANGED notAdapterVars

NextAdapters ==
    \/ AdapterScanStart
    \/ EmailDomainInfo
    \/ EmailBreaches
    \/ EmailGravatar
    \/ EmailDisposable
    \/ EmailRisk
    \/ DomainWhois
    \/ DomainDns
    \/ DomainSsl
    \/ DomainTech
    \/ DomainHeaders
    \/ DomainWeb
    \/ DomainSubdomains
    \/ DomainReputation
    \/ DomainAssess

SpecAdapters == InitAdapters /\ [][NextAdapters]_vars

----------------------------------------------------------------------------
(* Properties of the adapters *)

\* The adapters that failed during this scan, named by their field of a_env.
FailedAdapters ==
    {f \in DOMAIN a_env :
        \/ f \in {"mx", "whois", "ssl", "web", "headers", "subs", "vt"}
              /\ a_env[f] = "fail"
        \/ f = "gravatar" /\ a_env[f] = "fail"
        \/ f = "dns" /\ a_env[f] \in {"nxdomain", "no_resolver"}
        \/ f = "breach" /\ a_env[f] \in BreachRequestFailed \cup {"429 date"}}

\* The sections each adapter writes.
SectionsOf(f) ==
    CASE f = "mx"       -> {"domain_info"}
      [] f = "breach"   -> {"breaches"}
      [] f = "gravatar" -> {"gravatar"}
      [] f = "whois"    -> {"whois"}
      [] f = "dns"      -> {"dns_records", "ip_addresses", "nameservers",
                            "mx_records"}
      [] f = "ssl"      -> {"ssl_certificate"}
      [] f = "web"      -> {"technology_stack", "web_info"}
      [] f = "headers"  -> {"security_headers"}
      [] f = "subs"     -> {"subdomains"}
      [] f = "vt"       -> {"reputation"}
      [] OTHER          -> {}

AdapterSections == UNION {SectionsOf(f) : f \in DOMAIN a_env}

\* The same services with adapter f answering normally.
Recovered(f) ==
    [a_env EXCEPT ![f] = CASE f = "breach"   -> "200 clean"
                           [] f = "gravatar" -> "404"
                           [] f = "vt"       -> "clean"
                           [] OTHER          -> "ok"]

\* The adapter sections scan() reports when every adapter of e returns.
SectionsReported(e) ==
    IF a_kind = "email"
    THEN [domain_info |-> AnalyzeDomain(e.mx),
          breaches    |-> CheckXposedornot(e.breach),
          gravatar    |-> CheckGravatar(e.gravatar)]
    ELSE LET dns_data == GetDnsRecords(e.dns)
         IN [whois            |-> GetWhois(e.whois),
             dns_records      |-> dns_data,
             ip_addresses     |-> DictGet(dns_data, "A", <<>>),
             nameservers      |-> DictGet(dns_data, "NS", <<>>),
             mx_records       |-> DictGet(dns_data, "MX", <<>>),
             ssl_certificate  |-> GetSslInfo(e.ssl),
             technology_stack |-> DetectTechnologies(e.web),
             security_headers |-> CheckSecurityHeaders(e.headers),
             web_info         |-> GetWebInfo(e.web),
             subdomains       |-> EnumerateSubdomains(e.subs),
             reputation       |-> [virustotal |-> CheckVirustotal(e.vt)]]

\* C11 (Adapter isolation): when exactly one adapter fails, the scan does not
\* raise, and the report it returns carries, in every section written by
\* another adapter, what it would carry had that adapter not failed.  (The
\* scores derived from the sections, risk_assessment and security_assessment,
\* are not compared.)
C11_AdapterIsolation ==
    \A f \in FailedAdapters :
        FailedAdapters = {f} =>
            /\ a_pc # "raised"
            /\ a_pc = "returned" =>
                  \A s \in AdapterSections \ SectionsOf(f) :
                      a_report[s] = SectionsReported(Recovered(f))[s]

\* C12 (Adapter failure is a structured error): once the breach adapter has
\* run on a request that failed (network error, timeout, non-200 status), the
\* breaches section carries an error and differs from "no breach found".
C12_BreachErrorVisible ==
    (a_kind = "email" /\ a_pc \in {"gravatar", "disposable", "risk", "returned"}
        /\ a_env.breach \in BreachRequestFailed) =>
            /\ "error" \in DOMAIN a_report.breaches
            /\ a_report.breaches # NoBreachFound

----------------------------------------------------------------------------
(* A user interrupt during the username fan-out.  asyncio.run cancels the  *)
(* main task and re-raises KeyboardInterrupt; neither scan() nor _run_scan *)
(* (except Exception) catches it, so it reaches CKSearch.run, which prints *)
(* a notice and exits.  The fan-out's local found_results list is dropped. *)

Interrupt ==
    /\ pc = "scanning"
    /\ pc' = "interrupted"
    /\ UNCHANGED <<kind, target, scan_mode, include_adult, sites_to_check,
                   task_state, resp, done_queue, found_results, found_count,
                   advanced, outcomes, results, net_calls, parse_result>>
    /\ UNCHANGED <<capVars, pacerVars, retryVars, laterVars>>

\* A quick username scan that the user may interrupt.
InitInterrupt ==
    /\ InitScan
    /\ kind = "username"
    /\ scan_mode = "quick"
    /\ target # <<>>

NextInterrupt ==
    \/ UsernameScanStart
    \/ \E i \in DOMAIN task_state, r \in Responses : SiteCompletes(i, r)
    \/ LoopNext
    \/ Interrupt

SpecInterrupt == InitInterrupt /\ [][NextInterrupt]_vars

\* The tally of cancelled probes a report carries; the report the scan
\* builds has no field for it.
CancelledCount(r) == IF "cancelled" \in DOMAIN r THEN r.cancelled ELSE 0

\* C13 (Cancellation returns a partial report): after a user interrupt the
\* scan has returned a report, the report keeps the hits classified before
\* the interrupt, and every probe the loop had not yet received is counted as
\* cancelled.
C13_CancellationPartialReport ==
    pc = "interrupted" =>
        /\ results # NoReport
        /\ "found" \in DOMAIN results
        /\ results.found = found_results
        /\ CancelledCount(results) = Len(sites_to_check) - advanced

----------------------------------------------------------------------------
(* The site lists as a registry *)

\* No two entries of a site list carry the same name.
UniqueNames(sites) ==
    \A i, j \in DOMAIN sites : i # j => sites[i].name # sites[j].name

\* C14 (Registry uniqueness): the site list a username scan has selected,
\* quick or deep, never holds two entries with the same site name.
C14_RegistryUniqueness ==
    (kind = "username" /\ pc # "init") => UniqueNames(sites_to_check)

----------------------------------------------------------------------------
(* The licence gate.  One device (one fingerprint) with its user record on *)
(* the server, and the client process run on it: a CLI process serves one  *)
(* scan request and exits, an interactive process serves requests until    *)
(* the user leaves.  A handler runs from its limit check to its telemetry  *)
(* call without interleaving, so each is one action.                       *)

FREE_DAILY_LIMIT == 5   \* backend/app/config.py: free_daily_limit
OFFLINE_REQUESTS == 3   \* LicenseClient._offline_fallback: remaining_requests
UNLIMITED == 999999     \* routers/license.py: remaining for premium / admin
MaxExtra == 1           \* largest User.extra_requests
MaxDaily == 8           \* User.daily_requests stops growing here
MaxScans == 8           \* g_scans stops growing here

Modules == {"username", "email", "domain"}

\* What scanner.scan() does: returns a report, returns a validation error
\* dictionary ({"error": ...}), or raises.  The one validation error of the
\* username scanner, for the empty username, cannot happen: both paths drop
\* an empty target before the scanner is built.
ScanOutcomes == {"ok", "invalid", "raised"}

OutcomesOf(module) ==
    IF module = "username" THEN ScanOutcomes \ {"invalid"} ELSE ScanOutcomes

NoLast == [module |-> "none", requested |-> "none", executed |-> "none",
           outcome |-> "none", logged |-> FALSE, tier_seen |-> "none",
           before |-> 0, dr_before |-> 0]

Max(a, b) == IF a > b THEN a ELSE b

\* routers/license.py, "Calculate remaining": what the server reports for a
\* user with d daily requests.
Remaining(d) ==
    IF g_tier = "premium" THEN UNLIMITED
    ELSE Max(0, FREE_DAILY_LIMIT + extra_requests - d)

InitGate ==
    /\ g_path \in {"cli", "interactive"}
    /\ g_tier \in {"free", "premium"}
    /\ daily_requests = 0
    /\ extra_requests \in 0..MaxExtra
    /\ new_day = FALSE
    /\ license_info = NoneVal
    /\ g_pc = "boot"
    /\ g_last = NoLast
    /\ g_scans = 0
    /\ g_how = "none"
    /\ g_session = 0
    /\ ScanIdle
    /\ CapIdle
    /\ PacerIdle
    /\ RetryIdle
    /\ AdapterIdle
    /\ WrapIdle
    /\ ClassIdle
    /\ ServerIdle

notGateVars == <<scanVars, capVars, pacerVars, retryVars, adapterVars,
                 wrapVars, classVars, serverVars>>

\* CKSearch._init_license at process start.  "online": the server answers
\* /validate, resetting the daily counter on a new day; "offline": it does
\* not, and LicenseClient.validate falls back; "skipped": building the
\* client raised, license_info and license_client stay None.
InitLicense(how) ==
    /\ g_pc = "boot"
    /\ g_pc' = "ready"
    /\ g_last' = NoLast
    /\ g_how' = how
    /\ g_session' = 0
    /\ CASE how = "online" ->
              LET d == IF new_day THEN 0 ELSE daily_requests
              IN /\ daily_requests' = d
                 /\ new_day' = FALSE
                 /\ g_scans' = IF new_day THEN 0 ELSE g_scans
                 /\ license_info' = [tier |-> g_tier,
                                     remaining_requests |-> Remaining(d)]
         [] how = "offline" ->
              /\ license_info' = [tier |-> "free",
                                  remaining_requests |-> OFFLINE_REQUESTS]
              /\ UNCHANGED <<daily_requests, new_day, g_scans>>
         [] OTHER ->
              /\ license_info' = NoneVal
              /\ UNCHANGED <<daily_requests, new_day, g_scans>>
    /\ UNCHANGED <<g_path, g_tier, extra_requests>>
    /\ UNCHANGED notGateVars

\* CKSearch._check_limit.
CheckLimit(module) ==
    \/ license_info = NoneVal
    \/ license_info.tier \in {"premium", "admin"}
    \/ module = "username"
    \/ license_info.remaining_requests > 0

\* The deep-mode check of CKSearch._run_scan (CLI path).
CliMode(module, requested) ==
    IF /\ requested = "deep"
       /\ license_info # NoneVal
       /\ license_info.tier = "free"
       /\ module # "username"
    THEN "quick" ELSE requested

\* The deep-mode check of the interactive handlers.
MenuMode(requested) ==
    IF /\ requested = "deep"
       /\ license_info # NoneVal
       /\ license_info.tier = "free"
    THEN "quick" ELSE requested

\* The bookkeeping of one served request.  call: _log_usage is called;
\* reached: its telemetry request reaches the server, which increments the
\* counters and answers with the new remaining count.
Serve(module, requested, executed, outcome, call, reached) ==
    LET sent == call /\ license_info # NoneVal /\ reached
    IN /\ g_last' = [module |-> module, requested |-> requested,
                     executed |-> executed, outcome |-> outcome,
                     logged |-> call /\ license_info # NoneVal,
                     tier_seen |-> IF license_info = NoneVal THEN "unknown"
                                   ELSE license_info.tier,
                     before |-> IF license_info = NoneVal THEN 0
                                ELSE license_info.remaining_requests,
                     dr_before |-> daily_requests]
       /\ daily_requests' = IF sent THEN daily_requests + 1 ELSE daily_requests
       /\ license_info' = IF sent
                          THEN [license_info EXCEPT !.remaining_requests =
                                    Remaining(daily_requests + 1)]
                          ELSE license_info
       /\ g_scans' = IF module # "username" /\ outcome = "ok"
                     THEN g_scans + 1 ELSE g_scans
       /\ g_session' = IF module # "username" /\ outcome = "ok"
                       THEN g_session + 1 ELSE g_session

\* CKSearch._run_cli_mode with _run_scan: refused by the limit check, or the
\* scanner runs and usage is logged when the result is truthy.
RunCliMode(module, requested, outcome, reached) ==
    /\ g_path = "cli"
    /\ g_pc = "ready"
    /\ outcome \in OutcomesOf(module)
    /\ daily_requests < MaxDaily
    /\ g_scans < MaxScans
    /\ IF ~CheckLimit(module)
       THEN Serve(module, requested, "none", "refused", FALSE, FALSE)
       ELSE Serve(module, requested, CliMode(module, requested), outcome,
                  outcome \in {"ok", "invalid"}, reached)
    /\ g_pc' = "exited"
    /\ UNCHANGED <<g_path, g_tier, extra_requests, new_day, g_how>>
    /\ UNCHANGED notGateVars

\* The interactive handlers other than the username one (_phone_lookup,
\* _email_osint, _domain_intel, ...): limit check, scan, then _log_usage
\* whatever the scan returned; an exception skips it.
MenuScan(module, requested, outcome, reached) ==
    /\ g_path = "interactive"
    /\ g_pc = "ready"
    /\ module # "username"
    /\ daily_requests < MaxDaily
    /\ g_scans < MaxScans
    /\ IF ~CheckLimit(module)
       THEN Serve(module, requested, "none", "refused", FALSE, FALSE)
       ELSE Serve(module, requested, MenuMode(requested), outcome,
                  outcome # "raised", reached)
    /\ UNCHANGED <<g_path, g_tier, extra_requests, new_day, g_pc, g_how>>
    /\ UNCHANGED notGateVars

\* CKSearch._username_search: no limit check and no _log_usage.
MenuUsernameSearch(requested, outcome) ==
    /\ g_path = "interactive"
    /\ g_pc = "ready"
    /\ outcome \in OutcomesOf("username")
    /\ Serve("username", requested, MenuMode(requested), outcome, FALSE, FALSE)
    /\ UNCHANGED <<g_path, g_tier, extra_requests, new_day, g_pc, g_how>>
    /\ UNCHANGED notGateVars

\* The process ends (a CLI run is over, or the user leaves the menu) and the
\* program is started again.
Restart ==
    /\ \/ g_pc = "exited"
       \/ g_pc = "ready" /\ g_path = "interactive"
    /\ g_pc' = "boot"
    /\ license_info' = NoneVal
    /\ g_last' = NoLast
    /\ g_how' = "none"
    /\ g_session' = 0
    /\ UNCHANGED <<g_path, g_tier, daily_requests, extra_requests, new_day,
                   g_scans>>
    /\ UNCHANGED notGateVars

\* 00:00 WIB passes; the server notices at the next /validate.
Midnight ==
    /\ ~new_day
    /\ new_day' = TRUE
    /\ UNCHANGED <<g_path, g_tier, daily_requests, extra_requests,
                   license_info, g_pc, g_last, g_scans, g_how, g_session>>
    /\ UNCHANGED notGateVars

NextGate ==
    \/ \E how \in {"online", "offline", "skipped"} : InitLicense(how)
    \/ \E m \in Modules, q \in {"quick", "deep"}, o \in ScanOutcomes,
          t \in BOOLEAN : RunCliMode(m, q, o, t)
    \/ \E m \in Modules, q \in {"quick", "deep"}, o \in ScanOutcomes,
          t \in BOOLEAN : MenuScan(m, q, o, t)
    \/ \E q \in {"quick", "deep"}, o \in ScanOutcomes : MenuUsernameSearch(q, o)
    \/ Restart
    \/ Midnight

SpecGate == InitGate /\ [][NextGate]_vars

----------------------------------------------------------------------------
(* Properties of the licence gate *)

\* C15 (Deep mode is gated by the licence): no scan request of a client that
\* knows its tier to be free, of any kind and on either path, makes the
\* scanner run in deep mode.
C15_DeepGated ==
    g_last.tier_seen = "free" => g_last.executed # "deep"

\* C16 (Usage is recorded only on success): for a scan kind that is metered,
\* usage is logged for a request if and only if the scan returned a report;
\* a refused request, a validation failure and a raised scan log nothing.
C16_UsageOnlyOnSuccess ==
    g_last.module \in Modules \ {"username"} =>
        (g_last.logged <=> g_last.outcome = "ok")

\* C17 (Free-tier daily quota): between two daily resets a free-tier user
\* gets at most FREE_DAILY_LIMIT + extra_requests reports of non-username
\* scans, and a non-username request made with remaining_requests at 0 is
\* refused.
C17_DailyQuota ==
    g_tier = "free" =>
        /\ g_scans <= FREE_DAILY_LIMIT + extra_requests
        /\ (g_last.module \in Modules \ {"username"}
               /\ g_last.tier_seen = "free" /\ g_last.before <= 0)
              => g_last.outcome = "refused"

\* C19 (Username scans are unlimited for the free tier): a username request
\* of a free-tier client is never refused, and it leaves the server's
\* daily_requests and the client's remaining_requests as they were.
C19_UsernameFree ==
    (g_last.module = "username" /\ g_last.tier_seen = "free") =>
        /\ g_last.outcome # "refused"
        /\ daily_requests = g_last.dr_before
        /\ license_info.remaining_requests = g_last.before

\* C28 (Offline usage is limited): in a process whose licence check fell back
\* to the offline grant, at most OFFLINE_REQUESTS non-username scans return
\* a report.
C28_OfflineLimit ==
    g_how = "offline" => g_session <= OFFLINE_REQUESTS

----------------------------------------------------------------------------
(* Concurrent calls of MaigretWrapper.check_username.  Each call launches  *)
(* the maigret command with --folderoutput /tmp; maigret writes its report *)
(* to /tmp/report_<username>.json, the call reads that file back, removes  *)
(* it, and falls back to the command's stdout when it got nothing from it. *)

NumScans == 2          \* calls running at the same time

Scans == 1..NumScans

WrapUsers == {"alice", "bob"}

NoFile == [tag |-> "no file"]
Partial == [tag |-> "partial"]     \* opened for writing, not yet complete

\* check_username: --top-sites for the mode.
TopSites(mode) == IF mode = "quick" THEN "50" ELSE "500"

\* What a maigret run for (username, mode) finds; its report file and its
\* stdout carry the same accounts.
Findings(username, mode) == [username |-> username, top_sites |-> TopSites(mode)]

InitWrap ==
    /\ w_user \in [Scans -> WrapUsers]
    /\ w_mode \in [Scans -> {"quick", "deep"}]
    /\ w_pc = [s \in Scans |-> "start"]
    /\ report_file = [u \in WrapUsers |-> NoFile]
    /\ w_results = [s \in Scans |-> <<>>]
    /\ ScanIdle
    /\ CapIdle
    /\ PacerIdle
    /\ RetryIdle
    /\ AdapterIdle
    /\ GateIdle
    /\ ClassIdle
    /\ ServerIdle

notWrapVars == <<scanVars, capVars, pacerVars, retryVars, adapterVars,
                 gateVars, classVars, serverVars>>

\* asyncio.create_subprocess_exec: the command starts.
MaigretStart(s) ==
    /\ w_pc[s] = "start"
    /\ w_pc' = [w_pc EXCEPT ![s] = "running"]
    /\ UNCHANGED <<w_user, w_mode, report_file, w_results>>
    /\ UNCHANGED notWrapVars

\* The command opens its report file for writing.
MaigretOpens(s) ==
    /\ w_pc[s] = "running"
    /\ report_file' = [report_file EXCEPT ![w_user[s]] = Partial]
    /\ w_pc' = [w_pc EXCEPT ![s] = "writing"]
    /\ UNCHANGED <<w_user, w_mode, w_results>>
    /\ UNCHANGED notWrapVars

\* The command completes the report and exits; communicate() returns.
MaigretExits(s) ==
    /\ w_pc[s] = "writing"
    /\ report_file' = [report_file EXCEPT ![w_user[s]] =
                           Findings(w_user[s], w_mode[s])]
    /\ w_pc' = [w_pc EXCEPT ![s] = "exited"]
    /\ UNCHANGED <<w_user, w_mode, w_results>>
    /\ UNCHANGED notWrapVars

\* check_username after communicate(): read /tmp/report_<username>.json if
\* it exists (a file that does not parse is left in place, by the except),
\* remove it, and parse stdout if that gave no result.
ReadReport(s) ==
    /\ w_pc[s] = "exited"
    /\ LET data == report_file[w_user[s]]
       IN IF data \notin {NoFile, Partial}
          THEN /\ w_results' = [w_results EXCEPT ![s] = data]
               /\ report_file' = [report_file EXCEPT ![w_user[s]] = NoFile]
          ELSE /\ w_results' = [w_results EXCEPT ![s] =
                                    Findings(w_user[s], w_mode[s])]
               /\ UNCHANGED report_file
    /\ w_pc' = [w_pc EXCEPT ![s] = "done"]
    /\ UNCHANGED <<w_user, w_mode>>
    /\ UNCHANGED notWrapVars

NextWrap ==
    \/ \E s \in Scans : MaigretStart(s)
    \/ \E s \in Scans : MaigretOpens(s)
    \/ \E s \in Scans : MaigretExits(s)
    \/ \E s \in Scans : ReadReport(s)

SpecWrap == InitWrap /\ [][NextWrap]_vars

\* C18 (Concurrent scans are independent): whatever other call runs at the
\* same time, a call returns what it returns when it runs alone.
C18_ScansIndependent ==
    \A s \in Scans :
        w_pc[s] = "done" => w_results[s] = Findings(w_user[s], w_mode[s])

----------------------------------------------------------------------------
(* One response classified by _check_site.  The request follows redirects  *)
(* (allow_redirects=True), so the response carries the status of the last  *)
(* hop and the URL it ended at.                                            *)

\* Where the request ended: at the profile URL asked for, or at another page.
FinalUrls == {"profile", "/404", "/error", "/notfound", "/login"}

ClassifiedResponses ==
    [status : {"200", "404"}, final : FinalUrls]
        \cup [status : TransportErrors, final : {"none"}]

Pending == [tag |-> "pending"]     \* _check_site has not returned

\* _check_site on a response: only resp.status is read, never resp.url.
CheckSiteResponse(site, username, response) ==
    CheckSite(site, username, response.status)

InitClassify ==
    /\ k_site \in Range(DEEP_SITES)
    /\ k_user \in Usernames \ {<<>>}
    /\ k_resp \in ClassifiedResponses
    /\ k_result = Pending
    /\ ScanIdle
    /\ CapIdle
    /\ PacerIdle
    /\ RetryIdle
    /\ AdapterIdle
    /\ GateIdle
    /\ WrapIdle
    /\ ServerIdle

Classify ==
    /\ k_result = Pending
    /\ k_result' = CheckSiteResponse(k_site, k_user, k_resp)
    /\ UNCHANGED <<k_site, k_user, k_resp>>
    /\ UNCHANGED <<scanVars, capVars, pacerVars, retryVars, adapterVars,
                   gateVars, wrapVars, serverVars>>

NextClassify == Classify

SpecClassify == InitClassify /\ [][NextClassify]_vars

\* The final URL is one of the redirected-to-error pages.
RedirectedToError(final) == final \in {"/404", "/error", "/notfound"}

\* C20 (StatusExists rule): a status-rule probe is classified present if and
\* only if the response status is 200 and the final URL after redirects is
\* not a redirected-to-error page.
C20_StatusExists ==
    k_result \notin {Pending, [tag |-> "idle"]} =>
        (k_result # NoneVal <=>
            (k_resp.status = "200" /\ ~RedirectedToError(k_resp.final)))

----------------------------------------------------------------------------
(* Termination.  A username scan, or one call of the API client, running   *)
(* to its end with no interrupt.  Every request of the fan-out is made     *)
(* under aiohttp.ClientTimeout(total=10) and every request of the client   *)
(* under timeout=self.timeout, so a request in flight ends (with an answer *)
(* or with a timeout exception); the event loop resumes every coroutine    *)
(* that is ready.  These are the fairness conditions below.                *)

InitTermination ==
    \/ /\ InitScan
       /\ kind = "username"
       /\ target = <<"a">>
       /\ scan_mode = "deep" => ~include_adult
    \/ InitRetry

NextTermination ==
    \/ UsernameScanStart
    \/ \E i \in DOMAIN task_state, r \in Responses : SiteCompletes(i, r)
    \/ LoopNext
    \/ CallEnter
    \/ GetAttempt
    \/ PostAttempt
    \/ AsyncGetAttempt

SpecTermination ==
    /\ InitTermination
    /\ [][NextTermination]_vars
    /\ WF_vars(UsernameScanStart)
    /\ \A i \in 1..Len(DEEP_SITES) :
          WF_vars(i \in DOMAIN task_state
                     /\ \E r \in Responses : SiteCompletes(i, r))
    /\ WF_vars(LoopNext)
    /\ WF_vars(CallEnter)
    /\ WF_vars(GetAttempt)
    /\ WF_vars(PostAttempt)
    /\ WF_vars(AsyncGetAttempt)

\* The loop of _scan_sites has received the outcome of the probe at
\* position i.
OutcomeYielded(i) == i \in DOMAIN outcomes /\ outcomes[i] = 1

\* C24 (Scan termination): a username scan that has started eventually
\* returns its report, every probe it has dispatched eventually yields its
\* outcome to the fan-out loop, and a call of the API client eventually
\* returns.
C24_ScanTerminates ==
    /\ (kind = "username") ~> (pc = "returned" /\ results # NoReport)
    /\ \A i \in 1..Len(DEEP_SITES) :
          (i \in DOMAIN task_state /\ task_state[i] = "inflight")
              ~> OutcomeYielded(i)
    /\ (r_pc = "call") ~> (r_pc = "done")

\* A scan has returned its report although one of its requests timed out.
C24_Witness ==
    /\ kind = "username"
    /\ pc = "returned"
    /\ results # NoReport
    /\ \E i \in DOMAIN resp : resp[i] = "timeout"
    /\ \A i \in DOMAIN outcomes : outcomes[i] = 1

----------------------------------------------------------------------------
(* The licence server.  Its handlers are "async def" functions that use a  *)
(* synchronous database session and never await between their first query *)
(* and their commit, so inside one server process a handler runs from      *)
(* query to commit without another handler in between.  Processes that     *)
(* share the database (uvicorn workers, replicas) run their handlers side  *)
(* by side: each reads its rows, decides on what it read, and its commit   *)
(* writes the column values it computed (the session holds no row lock and *)
(* the tables carry no version column).  How many processes serve the      *)
(* database is fixed by the deployment, not by the source: workers.        *)

NumWorkers == 2        \* server processes at most
MaxNow == 3            \* the clock stops here
MaxDays == 1           \* License.duration_days and the "days" of set-tier

Users == {"u1", "u2", "u3"}
LicUsers == {"u1", "u2"}     \* the users of the licence endpoints
Keys == {"K1"}
Workers == 1..NumWorkers

Idle == [op |-> "idle"]
NoAnswer == [op |-> "none"]

\* NULL in a DateTime column is 0 (the clock starts at 1); a NULL
\* license_key or referred_by is "none".
InitServer ==
    /\ s_kind \in {"licence", "referral"}
    /\ workers \in Workers
    /\ db_now = 1
    /\ u_tier = [u \in Users |-> "free"]
    /\ u_license_key = [u \in Users |-> "none"]
    /\ u_expires_at = [u \in Users |-> 0]
    /\ u_referred_by = [u \in Users |-> "none"]
    /\ u_extra_requests = [u \in Users |-> 0]
    /\ l_is_used = [k \in Keys |-> FALSE]
    /\ l_used_by = [k \in Keys |-> "none"]
    /\ h_req = [w \in Workers |-> Idle]
    /\ v_resp = NoAnswer
    /\ upgraded_by = [k \in Keys |-> {}]
    /\ redeemed = [u \in Users |-> 0]
    /\ credited = [u \in Users |-> 0]
    /\ ScanIdle
    /\ CapIdle
    /\ PacerIdle
    /\ RetryIdle
    /\ AdapterIdle
    /\ GateIdle
    /\ WrapIdle
    /\ ClassIdle

notServerVars == <<scanVars, capVars, pacerVars, retryVars, adapterVars,
                   gateVars, wrapVars, classVars>>

licenceVars == <<u_tier, u_license_key, u_expires_at, l_is_used, l_used_by,
                 upgraded_by>>

referralVars == <<u_referred_by, u_extra_requests, redeemed, credited>>

\* A process is free to take a request: it is not inside a handler, and
\* the deployment has a process to spare.
CanHandle(w) ==
    /\ w <= workers
    /\ h_req[w] = Idle

\* activate_license up to "Activate license": the lookups, the is_used
\* check and the computation of expires_at.  A used key is refused at once.
ActivateBegin(w, u, k) ==
    /\ s_kind = "licence"
    /\ CanHandle(w)
    /\ IF l_is_used[k]
       THEN /\ v_resp' = [op |-> "activate", success |-> FALSE]
            /\ UNCHANGED h_req
       ELSE LET premium == /\ u_tier[u] = "premium"
                           /\ u_expires_at[u] # 0
                           /\ u_expires_at[u] > db_now
                expires == IF premium THEN u_expires_at[u] + MaxDays
                           ELSE db_now + MaxDays
            IN /\ h_req' = [h_req EXCEPT ![w] =
                               [op |-> "activate", user |-> u, key |-> k,
                                expires_at |-> expires]]
               /\ UNCHANGED v_resp
    /\ UNCHANGED <<s_kind, workers, db_now, licenceVars, referralVars>>
    /\ UNCHANGED notServerVars

\* activate_license from "user.tier = TierEnum.PREMIUM" to db.commit() and
\* the answer.
ActivateCommit(w) ==
    /\ h_req[w].op = "activate"
    /\ LET u == h_req[w].user
           k == h_req[w].key
       IN /\ u_tier' = [u_tier EXCEPT ![u] = "premium"]
          /\ u_license_key' = [u_license_key EXCEPT ![u] = k]
          /\ u_expires_at' = [u_expires_at EXCEPT ![u] = h_req[w].expires_at]
          /\ l_is_used' = [l_is_used EXCEPT ![k] = TRUE]
          /\ l_used_by' = [l_used_by EXCEPT ![k] = u]
          /\ upgraded_by' = [upgraded_by EXCEPT ![k] = @ \cup {u}]
          /\ v_resp' = [op |-> "activate", success |-> TRUE]
    /\ h_req' = [h_req EXCEPT ![w] = Idle]
    /\ UNCHANGED <<s_kind, workers, db_now, referralVars>>
    /\ UNCHANGED notServerVars

\* validate_fingerprint for a known user who is not banned: "Check premium
\* expiry", then the answer.
ValidateFingerprint(w, u) ==
    /\ s_kind = "licence"
    /\ CanHandle(w)
    /\ LET expired == /\ u_tier[u] = "premium"
                      /\ u_expires_at[u] # 0
                      /\ u_expires_at[u] < db_now
           tier    == IF expired THEN "free" ELSE u_tier[u]
           expires == IF expired THEN 0 ELSE u_expires_at[u]
       IN /\ u_tier' = [u_tier EXCEPT ![u] = tier]
          /\ u_license_key' = [u_license_key EXCEPT ![u] =
                                  IF expired THEN "none" ELSE @]
          /\ u_expires_at' = [u_expires_at EXCEPT ![u] = expires]
          /\ v_resp' = [op |-> "validate", success |-> TRUE,
                        tier |-> tier, expires_at |-> expires,
                        at |-> db_now]
    /\ UNCHANGED <<s_kind, workers, db_now, l_is_used, l_used_by, upgraded_by,
                   h_req, referralVars>>
    /\ UNCHANGED notServerVars

\* admin.set_user_tier; days = 0 stands for the parameter left out (and
\* for days = 0, which the handler treats alike).
SetUserTier(w, u, tier, days) ==
    /\ s_kind = "licence"
    /\ CanHandle(w)
    /\ u_tier' = [u_tier EXCEPT ![u] = tier]
    /\ u_expires_at' = [u_expires_at EXCEPT ![u] =
           IF tier = "premium" /\ days # 0 THEN db_now + days
           ELSE IF tier \in {"admin", "free"} THEN 0
           ELSE @]
    /\ u_license_key' = [u_license_key EXCEPT ![u] =
           IF tier = "free" THEN "none" ELSE @]
    /\ UNCHANGED <<s_kind, workers, db_now, l_is_used, l_used_by, upgraded_by,
                   h_req, v_resp, referralVars>>
    /\ UNCHANGED notServerVars

\* A day passes.
DayPasses ==
    /\ s_kind = "licence"
    /\ db_now < MaxNow
    /\ db_now' = db_now + 1
    /\ UNCHANGED <<s_kind, workers, licenceVars, referralVars, h_req, v_resp>>
    /\ UNCHANGED notServerVars

\* use_referral up to "Apply referral": the lookups and the three checks.
\* r is the owner of the code sent, "nobody" for a code no user has.
UseReferralBegin(w, u, r) ==
    /\ s_kind = "referral"
    /\ CanHandle(w)
    /\ IF u_referred_by[u] # "none" \/ r = "nobody" \/ r = u
       THEN /\ v_resp' = [op |-> "referral", success |-> FALSE]
            /\ UNCHANGED h_req
       ELSE /\ h_req' = [h_req EXCEPT ![w] =
                            [op |-> "referral", user |-> u, referrer |-> r,
                             user_extra |-> u_extra_requests[u],
                             referrer_extra |-> u_extra_requests[r]]]
            /\ UNCHANGED v_resp
    /\ UNCHANGED <<s_kind, workers, db_now, licenceVars, referralVars>>
    /\ UNCHANGED notServerVars

\* use_referral from "user.referred_by = referrer.id" to db.commit() and
\* the answer: the two "+= 1" were computed on the rows as read.
UseReferralCommit(w) ==
    /\ h_req[w].op = "referral"
    /\ LET u == h_req[w].user
           r == h_req[w].referrer
       IN /\ u_referred_by' = [u_referred_by EXCEPT ![u] = r]
          /\ u_extra_requests' = [u_extra_requests EXCEPT
                                     ![u] = h_req[w].user_extra + 1,
                                     ![r] = h_req[w].referrer_extra + 1]
          /\ redeemed' = [redeemed EXCEPT ![u] = @ + 1]
          /\ credited' = [credited EXCEPT ![u] = @ + 1, ![r] = @ + 1]
          /\ v_resp' = [op |-> "referral", success |-> TRUE]
    /\ h_req' = [h_req EXCEPT ![w] = Idle]
    /\ UNCHANGED <<s_kind, workers, db_now, licenceVars>>
    /\ UNCHANGED notServerVars

NextServer ==
    \/ \E w \in Workers, u \in LicUsers, k \in Keys : ActivateBegin(w, u, k)
    \/ \E w \in Workers : ActivateCommit(w)
    \/ \E w \in Workers, u \in LicUsers : ValidateFingerprint(w, u)
    \/ \E w \in Workers, u \in LicUsers, tier \in {"free", "premium", "admin"},
          days \in 0..MaxDays : SetUserTier(w, u, tier, days)
    \/ DayPasses
    \/ \E w \in Workers, u \in Users, r \in Users \cup {"nobody"} :
          UseReferralBegin(w, u, r)
    \/ \E w \in Workers : UseReferralCommit(w)

SpecServer == InitServer /\ [][NextServer]_vars

\* C27 (A licence key is consumed at most once): whatever the order and
\* interleaving of the activate requests, at most one user has been upgraded
\* by any one key.
C27_KeyConsumedOnce ==
    s_kind = "licence" => \A k \in Keys : Cardinality(upgraded_by[k]) <= 1

\* C29 (A referral is redeemed at most once per user): whatever the order
\* and interleaving of the referral requests, every user has at most one
\* successful redemption and none with their own code, and every user's
\* extra_requests is the sum of the +1 the successful answers gave them
\* (rejected requests add nothing).
C29_ReferralOnce ==
    s_kind = "referral" =>
        \A u \in Users :
            /\ redeemed[u] <= 1
            /\ u_referred_by[u] # u
            /\ u_extra_requests[u] = credited[u]

\* C30 (Premium is held only for an unexpired term): an answer of validate
\* that reports success and the premium tier carries an expires_at that is
\* set and has not passed.
C30_PremiumUnexpired ==
    (v_resp.op = "validate" /\ v_resp.success /\ v_resp.tier = "premium") =>
        /\ v_resp.expires_at # 0
        /\ v_resp.expires_at >= v_resp.at

====
